---- MODULE Spec2Model ----
(***************************************************************************)
(* TorzelaUtils.py: Diffie-Hellman key agreement, AES-CBC/PKCS#7 message   *)
(* encryption, PEM key serialization and the onion-layer codec.            *)
(*                                                                         *)
(* Python values are records [type, v]: type is the Python class of the    *)
(* value ("str", "bytes", or the class of a raised exception) and v its    *)
(* content, a sequence of code points (str) or of bytes 0..255 (bytes).    *)
(* The library primitives (DH group, HKDF, AES) are small stand-ins with   *)
(* the algebra of the real ones: modular exponentiation in a small safe-   *)
(* prime group, a deterministic 32-byte key derivation, a keyed invertible *)
(* block transformation chained in CBC mode with the source's IV.          *)
(***************************************************************************)
EXTENDS Integers, Sequences, FiniteSets, TLC

VARIABLES
  pc,                       \* position of the running caller
  keyGenerator,             \* DH parameters, createKeyGenerator()
  a_private_key, a_public_key,
  b_private_key, b_public_key,
  msg,                      \* plaintext of the current iteration / call
  a_shared_secret, b_shared_secret,
  e,                        \* encryptMessage result
  answer,                   \* decryptMessage result
  error,                    \* error flag of the test functions
  b_public_key_serialized,  \* testKeySerialization
  serverType,               \* role given to decryptOnionLayer
  layer,                    \* wire text handed to decryptOnionLayer
  encLayer,                 \* encryptOnionLayer result
  decoded,                  \* decryptOnionLayer result
  th                        \* per-thread locals of concurrent callers

testVars == <<msg, a_shared_secret, b_shared_secret, e, answer, error,
              b_public_key_serialized>>
keyVars == <<keyGenerator, a_private_key, a_public_key, b_private_key, b_public_key>>
onionVars == <<serverType, layer, encLayer, decoded>>
vars == <<pc, keyVars, testVars, onionVars, th>>

----------------------------------------------------------------------------
(* Bounds *)

\* largest private exponent generate_private_key() draws
MaxPriv == 3
\* longest exhaustively enumerated test message
MaxMsgLen == 2
\* longest exhaustively enumerated onion payload
MaxPayloadLen == 5
\* number of concurrent callers
NumThreads == 2

----------------------------------------------------------------------------
(* Python values *)

PyStr(s) == [type |-> "str", v |-> s]
PyBytes(b) == [type |-> "bytes", v |-> b]
PyNone == [type |-> "NoneType", v |-> <<>>]
Raise(cls) == [type |-> cls, v |-> <<>>]
IsExc(x) == x.type \in {"ValueError", "UnicodeDecodeError", "UnicodeEncodeError",
                        "AttributeError", "TypeError"}

RECURSIVE XorBits(_, _, _)
XorBits(a, b, n) ==
  IF n = 0 THEN 0
  ELSE (((a % 2) + (b % 2)) % 2) + 2 * XorBits(a \div 2, b \div 2, n - 1)

\* a ^ b on bytes
Xor(a, b) == XorBits(a, b, 8)

\* number of bytes of the UTF-8 sequence a lead byte starts, 0 if none
Utf8SeqLen(b0) ==
  IF b0 < 128 THEN 1
  ELSE IF b0 >= 194 /\ b0 <= 223 THEN 2
  ELSE IF b0 >= 224 /\ b0 <= 239 THEN 3
  ELSE IF b0 >= 240 /\ b0 <= 244 THEN 4
  ELSE 0

\* is b[i..] headed by one well-formed UTF-8 sequence (strict, as CPython)
Utf8SeqOk(b, i) ==
  LET n == Utf8SeqLen(b[i])
  IN /\ n > 0
     /\ i + n - 1 <= Len(b)
     /\ \A k \in 1..(n - 1) : b[i + k] >= 128 /\ b[i + k] <= 191
     /\ (b[i] = 224 => b[i + 1] >= 160)
     /\ (b[i] = 237 => b[i + 1] <= 159)
     /\ (b[i] = 240 => b[i + 1] >= 144)
     /\ (b[i] = 244 => b[i + 1] <= 143)

RECURSIVE Utf8ValidFrom(_, _)
Utf8ValidFrom(b, i) ==
  IF i > Len(b) THEN TRUE
  ELSE Utf8SeqOk(b, i) /\ Utf8ValidFrom(b, i + Utf8SeqLen(b[i]))

Utf8CodePoint(b, i) ==
  LET n == Utf8SeqLen(b[i])
  IN IF n = 1 THEN b[i]
     ELSE IF n = 2 THEN (b[i] - 192) * 64 + (b[i + 1] - 128)
     ELSE IF n = 3 THEN (b[i] - 224) * 4096 + (b[i + 1] - 128) * 64 + (b[i + 2] - 128)
     ELSE (b[i] - 240) * 262144 + (b[i + 1] - 128) * 4096
          + (b[i + 2] - 128) * 64 + (b[i + 3] - 128)

RECURSIVE Utf8DecodeFrom(_, _)
Utf8DecodeFrom(b, i) ==
  IF i > Len(b) THEN <<>>
  ELSE <<Utf8CodePoint(b, i)>> \o Utf8DecodeFrom(b, i + Utf8SeqLen(b[i]))

Utf8EncodeChar(c) ==
  IF c < 128 THEN <<c>>
  ELSE IF c < 2048 THEN <<192 + (c \div 64), 128 + (c % 64)>>
  ELSE IF c < 65536 THEN <<224 + (c \div 4096), 128 + ((c \div 64) % 64), 128 + (c % 64)>>
  ELSE <<240 + (c \div 262144), 128 + ((c \div 4096) % 64),
         128 + ((c \div 64) % 64), 128 + (c % 64)>>

RECURSIVE Utf8EncodeSeq(_)
Utf8EncodeSeq(s) ==
  IF s = <<>> THEN <<>> ELSE Utf8EncodeChar(Head(s)) \o Utf8EncodeSeq(Tail(s))

\* x.encode(): defined on str only
Encode(x) ==
  IF IsExc(x) THEN x
  ELSE IF x.type # "str" THEN Raise("AttributeError")
  ELSE IF \E i \in 1..Len(x.v) : x.v[i] >= 55296 /\ x.v[i] <= 57343
       THEN Raise("UnicodeEncodeError")
  ELSE PyBytes(Utf8EncodeSeq(x.v))

\* x.decode(): defined on bytes only
Decode(x) ==
  IF IsExc(x) THEN x
  ELSE IF x.type # "bytes" THEN Raise("AttributeError")
  ELSE IF ~Utf8ValidFrom(x.v, 1) THEN Raise("UnicodeDecodeError")
  ELSE PyStr(Utf8DecodeFrom(x.v, 1))

----------------------------------------------------------------------------
(* Text helpers *)

Hash == 35  \* "#"

\* index of the first occurrence of c in s at or after i, 0 if none
RECURSIVE IndexFrom(_, _, _)
IndexFrom(s, c, i) ==
  IF i > Len(s) THEN 0 ELSE IF s[i] = c THEN i ELSE IndexFrom(s, c, i + 1)

\* s.split(sep, maxsplit=n) for a one-character separator
RECURSIVE Split(_, _, _)
Split(s, sep, n) ==
  LET i == IndexFrom(s, sep, 1)
  IN IF n = 0 \/ i = 0 THEN <<s>>
     ELSE <<SubSeq(s, 1, i - 1)>> \o Split(SubSeq(s, i + 1, Len(s)), sep, n - 1)

IsDigit(c) == c >= 48 /\ c <= 57
IsSpace(c) == c \in {9, 10, 11, 12, 13, 32}

RECURSIVE LStrip(_)
LStrip(s) == IF s # <<>> /\ IsSpace(Head(s)) THEN LStrip(Tail(s)) ELSE s

RECURSIVE RStrip(_)
RStrip(s) ==
  IF s # <<>> /\ IsSpace(s[Len(s)]) THEN RStrip(SubSeq(s, 1, Len(s) - 1)) ELSE s

RECURSIVE DigitsValue(_)
DigitsValue(s) ==
  IF s = <<>> THEN 0
  ELSE IF s[Len(s)] = 95 THEN DigitsValue(SubSeq(s, 1, Len(s) - 1))
  ELSE 10 * DigitsValue(SubSeq(s, 1, Len(s) - 1)) + (s[Len(s)] - 48)

\* the text int() accepts after stripping and the sign: digits, single
\* underscores between digits
IsIntBody(s) ==
  /\ s # <<>>
  /\ \A i \in 1..Len(s) : IsDigit(s[i]) \/ s[i] = 95
  /\ IsDigit(s[1]) /\ IsDigit(s[Len(s)])
  /\ \A i \in 1..(Len(s) - 1) : ~(s[i] = 95 /\ s[i + 1] = 95)

IntText(s) ==
  LET t == RStrip(LStrip(s))
  IN IF t # <<>> /\ Head(t) \in {43, 45} THEN Tail(t) ELSE t

\* does int(s) return
IntOk(s) == IsIntBody(IntText(s))

\* int(s), for IntOk(s)
IntValue(s) ==
  LET t == RStrip(LStrip(s))
  IN IF Head(t) = 45 THEN 0 - DigitsValue(IntText(s)) ELSE DigitsValue(IntText(s))

RECURSIVE DecimalText(_)
DecimalText(n) ==
  IF n < 10 THEN <<48 + n>> ELSE DecimalText(n \div 10) \o <<48 + (n % 10)>>

----------------------------------------------------------------------------
(* Library stand-ins: DH group, HKDF, AES-CBC, PKCS#7, PEM *)

BlockSize == 16   \* padding.PKCS7(128), the AES block
KeyLength == 32   \* HKDF(length=32)
Generator == 2    \* dh.generate_parameters(generator=2)

\* safe primes p for which the generator spans a subgroup of Z_p^*
Primes == {11, 23}

\* the fixed initialization vector of createCipher
IV == <<43, 237, 54, 221, 240, 177, 23, 162, 167, 18, 19, 211, 208, 249, 20, 172>>

\* info=b'handshake data'
HkdfInfo == <<104, 97, 110, 100, 115, 104, 97, 107, 101, 32, 100, 97, 116, 97>>

RECURSIVE SumSeq(_)
SumSeq(s) == IF s = <<>> THEN 0 ELSE Head(s) + SumSeq(Tail(s))

RECURSIVE ModExp(_, _, _)
ModExp(b, x, m) == IF x = 0 THEN 1 % m ELSE (b * ModExp(b, x - 1, m)) % m

\* HKDF(...).derive(shared_key): a deterministic KeyLength-byte key that
\* depends on the exchanged group element and on the info label
HkdfDerive(z) ==
  LET info == SumSeq(HkdfInfo)
  IN [i \in 1..KeyLength |-> (5 * z + 36 * i + info) % 256] \o <<>>

\* one AES block under key k: a keyed, invertible map on blocks
AesEncryptBlock(k, x) ==
  [i \in 1..BlockSize |-> (Xor(x[i], k[i]) + k[BlockSize + i]) % 256] \o <<>>

AesDecryptBlock(k, c) ==
  [i \in 1..BlockSize |-> Xor((c[i] + 256 - k[BlockSize + i]) % 256, k[i])] \o <<>>

XorBlock(x, y) == [i \in 1..BlockSize |-> Xor(x[i], y[i])] \o <<>>

\* encryptor.update(data) + encryptor.finalize() in CBC mode; prev is the
\* previous ciphertext block, the IV at the start
RECURSIVE CbcEncrypt(_, _, _)
CbcEncrypt(k, prev, data) ==
  IF data = <<>> THEN <<>>
  ELSE LET c == AesEncryptBlock(k, XorBlock(SubSeq(data, 1, BlockSize), prev))
       IN c \o CbcEncrypt(k, c, SubSeq(data, BlockSize + 1, Len(data)))

RECURSIVE CbcDecrypt(_, _, _)
CbcDecrypt(k, prev, data) ==
  IF data = <<>> THEN <<>>
  ELSE LET c == SubSeq(data, 1, BlockSize)
       IN XorBlock(AesDecryptBlock(k, c), prev)
          \o CbcDecrypt(k, c, SubSeq(data, BlockSize + 1, Len(data)))

\* pads only up to the boundary: no block is added to aligned data
Pkcs7Pad_NoExtraBlock(data) ==
  LET n == (BlockSize - (Len(data) % BlockSize)) % BlockSize
  IN data \o [i \in 1..n |-> n]

\* padder.update(data) + padder.finalize()
Pkcs7Pad(data) ==
  LET n == BlockSize - (Len(data) % BlockSize)
  IN data \o [i \in 1..n |-> n]

\* unpadder.finalize() accepts the data
Pkcs7Ok(data) ==
  /\ Len(data) > 0
  /\ Len(data) % BlockSize = 0
  /\ LET n == data[Len(data)]
     IN /\ n >= 1 /\ n <= BlockSize
        /\ \A i \in (Len(data) - n + 1)..Len(data) : data[i] = n

\* strips one byte too few
Pkcs7Unpad_OffByOne(data) == SubSeq(data, 1, Len(data) - data[Len(data)] + 1)

Pkcs7Unpad(data) == SubSeq(data, 1, Len(data) - data[Len(data)])

PemHeader ==
  <<45, 45, 45, 45, 45, 66, 69, 71, 73, 78, 32, 80, 85, 66, 76, 73, 67, 32,
    75, 69, 89, 45, 45, 45, 45, 45, 10>>
PemFooter ==
  <<45, 45, 45, 45, 45, 69, 78, 68, 32, 80, 85, 66, 76, 73, 67, 32, 75, 69,
    89, 45, 45, 45, 45, 45, 10>>

\* the SubjectPublicKeyInfo body: p, g and y, in text of the base64 alphabet
PemBody(key) ==
  DecimalText(key.p) \o <<47>> \o DecimalText(key.g) \o <<47>>
  \o DecimalText(key.y) \o <<10>>

IsDecimal(s) == s # <<>> /\ \A i \in 1..Len(s) : IsDigit(s[i])

\* load_pem_public_key accepts the bytes
PemOk(b) ==
  /\ Len(b) > Len(PemHeader) + Len(PemFooter)
  /\ SubSeq(b, 1, Len(PemHeader)) = PemHeader
  /\ SubSeq(b, Len(b) - Len(PemFooter) + 1, Len(b)) = PemFooter
  /\ b[Len(b) - Len(PemFooter)] = 10
  /\ LET f == Split(SubSeq(b, Len(PemHeader) + 1, Len(b) - Len(PemFooter) - 1), 47, 0 - 1)
     IN Len(f) = 3 /\ \A i \in 1..3 : IsDecimal(f[i])

PemFields(b) ==
  Split(SubSeq(b, Len(PemHeader) + 1, Len(b) - Len(PemFooter) - 1), 47, 0 - 1)

----------------------------------------------------------------------------
(* Key objects *)

PublicKey(p, g, y) == [type |-> "DHPublicKey", p |-> p, g |-> g, y |-> y]
PrivateKey(p, g, x) == [type |-> "DHPrivateKey", p |-> p, g |-> g, x |-> x]
NoPublicKey == [type |-> "NoneType", p |-> 0, g |-> 0, y |-> 0]
NoPrivateKey == [type |-> "NoneType", p |-> 0, g |-> 0, x |-> 0]
NoGenerator == [p |-> 0, g |-> 0]
RaiseKey(cls) == [type |-> cls, p |-> 0, g |-> 0, y |-> 0]

\* private exponents generate_private_key() may draw
PrivateExponents == 2..MaxPriv

----------------------------------------------------------------------------
(* The functions of TorzelaUtils.py *)

createKeyGenerator(p) == [p |-> p, g |-> Generator]

createCipher(sharedSecret) ==
  IF sharedSecret.type # "bytes" THEN [type |-> "TypeError", key |-> <<>>, iv |-> IV]
  ELSE IF Len(sharedSecret.v) \notin {16, 24, 32}
       THEN [type |-> "ValueError", key |-> <<>>, iv |-> IV]
  ELSE [type |-> "Cipher", key |-> sharedSecret.v, iv |-> IV]

\* generateKeys with the private exponent x the generator drew
generateKeys(gen, x) ==
  <<PrivateKey(gen.p, gen.g, x), PublicKey(gen.p, gen.g, ModExp(gen.g, x, gen.p))>>

\* multiplies where the exchange exponentiates
DhExchange_Multiply(myPrivateKey, otherPublicKey) ==
  (otherPublicKey.y * myPrivateKey.x) % myPrivateKey.p

\* myPrivateKey.exchange(otherPublicKey)
DhExchange(myPrivateKey, otherPublicKey) ==
  ModExp(otherPublicKey.y, myPrivateKey.x, myPrivateKey.p)

computeSharedSecret(myPrivateKey, otherPublicKey) ==
  IF otherPublicKey.type # "DHPublicKey" THEN Raise("TypeError")
  ELSE IF otherPublicKey.p # myPrivateKey.p \/ otherPublicKey.g # myPrivateKey.g
       THEN Raise("ValueError")
  ELSE PyBytes(HkdfDerive(DhExchange(myPrivateKey, otherPublicKey)))

encryptMessage(shared_secret, m) ==
  LET data == Encode(m)
      cipher == createCipher(shared_secret)
  IN IF IsExc(data) THEN data
     ELSE IF cipher.type # "Cipher" THEN Raise(cipher.type)
     ELSE PyBytes(CbcEncrypt(cipher.key, cipher.iv, Pkcs7Pad(data.v)))

decryptMessage(shared_secret, m) ==
  LET cipher == createCipher(shared_secret)
  IN IF cipher.type # "Cipher" THEN Raise(cipher.type)
     ELSE IF m.type # "bytes" THEN Raise("TypeError")
     ELSE IF Len(m.v) % BlockSize # 0 THEN Raise("ValueError")
     ELSE LET dt == CbcDecrypt(cipher.key, cipher.iv, m.v)
          IN IF ~Pkcs7Ok(dt) THEN Raise("ValueError")
             ELSE Decode(PyBytes(Pkcs7Unpad(dt)))

\* writes the generator where the public element belongs
serializePublicKey_WrongField(public_key) ==
  Decode(PyBytes(PemHeader \o PemBody([public_key EXCEPT !.y = public_key.g]) \o PemFooter))

serializePublicKey(public_key) ==
  Decode(PyBytes(PemHeader \o PemBody(public_key) \o PemFooter))

deserializePublicKey(public_key) ==
  LET b == Encode(public_key)
  IN IF IsExc(b) THEN RaiseKey(b.type)
     ELSE IF ~PemOk(b.v) THEN RaiseKey("ValueError")
     ELSE LET f == PemFields(b.v)
          IN PublicKey(IntValue(f[1]), IntValue(f[2]), IntValue(f[3]))

\* the value decryptOnionLayer hands back: a tuple (ppk, ints..., payload),
\* None, or a raised exception (which carries no field)
Returned(ppk, ints, payload) ==
  [type |-> "tuple", ppk |-> ppk, ints |-> ints, payload |-> payload]
ReturnedNone == [type |-> "NoneType", ppk |-> NoPublicKey, ints |-> <<>>, payload |-> <<>>]
RaiseDecoded(cls) == [type |-> cls, ppk |-> NoPublicKey, ints |-> <<>>, payload |-> <<>>]

\* the branch on serverType, over the decrypted payload
decodeByServerType(ppk, decryptedPayload, role) ==
  IF role = 0 THEN Returned(ppk, <<>>, decryptedPayload.v)
  ELSE IF role = 1 THEN
    LET f == Split(decryptedPayload.v, Hash, 2)
    IN IF Len(f) # 3 THEN RaiseDecoded("ValueError")
       ELSE IF ~IntOk(f[1]) THEN RaiseDecoded("ValueError")
       ELSE Returned(ppk, <<IntValue(f[1])>>, f[2] \o <<Hash>> \o f[3])
  ELSE IF role = 2 THEN
    LET f == Split(decryptedPayload.v, Hash, 2)
    IN IF Len(f) # 3 THEN RaiseDecoded("ValueError")
       ELSE IF ~IntOk(f[1]) \/ ~IntOk(f[2]) THEN RaiseDecoded("ValueError")
       ELSE Returned(ppk, <<IntValue(f[1]), IntValue(f[2])>>, f[3])
  ELSE ReturnedNone

\* hands back the key it already parsed when a later step raises
decryptOnionLayer_Partial(serverPrivateKey, msgPayload, role) ==
  LET f == Split(msgPayload.v, Hash, 1)
  IN IF Len(f) # 2 THEN RaiseDecoded("ValueError")
     ELSE
       LET ppk == deserializePublicKey(PyStr(f[1]))
           payload == Encode(PyStr(f[2]))
           sharedSecret == computeSharedSecret(serverPrivateKey, ppk)
           decryptedPayload == Decode(decryptMessage(sharedSecret, payload))
       IN IF ppk.type # "DHPublicKey" THEN RaiseDecoded(ppk.type)
          ELSE IF IsExc(payload) THEN [RaiseDecoded(payload.type) EXCEPT !.ppk = ppk]
          ELSE IF IsExc(sharedSecret) THEN [RaiseDecoded(sharedSecret.type) EXCEPT !.ppk = ppk]
          ELSE IF IsExc(decryptedPayload)
            THEN [RaiseDecoded(decryptedPayload.type) EXCEPT !.ppk = ppk]
          ELSE decodeByServerType(ppk, decryptedPayload, role)

decryptOnionLayer(serverPrivateKey, msgPayload, role) ==
  LET f == Split(msgPayload.v, Hash, 1)
  IN IF Len(f) # 2 THEN RaiseDecoded("ValueError")
     ELSE
       LET ppk == deserializePublicKey(PyStr(f[1]))
           payload == Encode(PyStr(f[2]))
           sharedSecret == computeSharedSecret(serverPrivateKey, ppk)
           decryptedPayload == Decode(decryptMessage(sharedSecret, payload))
       IN IF ppk.type # "DHPublicKey" THEN RaiseDecoded(ppk.type)
          ELSE IF IsExc(payload) THEN RaiseDecoded(payload.type)
          ELSE IF IsExc(sharedSecret) THEN RaiseDecoded(sharedSecret.type)
          ELSE IF IsExc(decryptedPayload) THEN RaiseDecoded(decryptedPayload.type)
          ELSE decodeByServerType(ppk, decryptedPayload, role)

encryptOnionLayer(serverPrivateKey, clientPublicKey, msgPayload) ==
  LET sharedSecret == computeSharedSecret(serverPrivateKey, clientPublicKey)
  IN IF IsExc(sharedSecret) THEN sharedSecret
     ELSE Decode(encryptMessage(sharedSecret, msgPayload))

\* the wire layer a sender composes: its serialized key, "#", the layer text
WireLayer(publicKey, layerText) ==
  PyStr(serializePublicKey(publicKey).v \o <<Hash>> \o layerText.v)

----------------------------------------------------------------------------
(* Inputs *)

RECURSIVE Repeat(_, _)
Repeat(c, n) == IF n = 0 THEN <<>> ELSE <<c>> \o Repeat(c, n - 1)

RECURSIVE StringsUpTo(_, _)
StringsUpTo(alphabet, n) ==
  IF n = 0 THEN {<<>>}
  ELSE LET shorter == StringsUpTo(alphabet, n - 1)
       IN shorter \cup {t \o <<c>> : t \in {u \in shorter : Len(u) = n - 1}, c \in alphabet}

\* "hello#world"
HelloWorld == <<104, 101, 108, 108, 111, 35, 119, 111, 114, 108, 100>>

\* messages over letters and punctuation of createRandomMessage ("a", "Z",
\* "}"), the lengths around the block boundary, a two-byte character and the
\* message with the delimiter
TestMessages ==
  StringsUpTo({97, 90, 125}, MaxMsgLen)
  \cup {Repeat(97, n) : n \in {BlockSize - 1, BlockSize, BlockSize + 1, 2 * BlockSize}}
  \cup {HelloWorld, <<233>>, <<90, 233>>}

\* onion payloads over "1", "#", "a"
Payloads == StringsUpTo({49, Hash, 97}, MaxPayloadLen)

Roles == {0, 1, 2, 3}

Threads == 1..NumThreads

IdleThread ==
  [pc |-> "idle", secret |-> PyNone, msg |-> PyNone, padded |-> <<>>,
   cipher |-> [type |-> "NoneType", key |-> <<>>, iv |-> <<>>],
   e |-> PyNone, dt |-> <<>>, answer |-> PyNone]

----------------------------------------------------------------------------
(* State after import: nothing called yet *)

InitCommon ==
  /\ keyGenerator = NoGenerator
  /\ a_private_key = NoPrivateKey /\ a_public_key = NoPublicKey
  /\ b_private_key = NoPrivateKey /\ b_public_key = NoPublicKey
  /\ msg = PyNone
  /\ a_shared_secret = PyNone /\ b_shared_secret = PyNone
  /\ e = PyNone /\ answer = PyNone
  /\ error = FALSE
  /\ b_public_key_serialized = PyNone
  /\ serverType = 0 - 1
  /\ layer = PyNone /\ encLayer = PyNone
  /\ decoded = ReturnedNone
  /\ th = [t \in Threads |-> IdleThread]

----------------------------------------------------------------------------
(* testEncryption *)

\* lines 128-132: one key generator, two key pairs
TE_Setup(p, xa, xb) ==
  /\ pc = "te_start"
  /\ LET gen == createKeyGenerator(p)
         a == generateKeys(gen, xa)
         b == generateKeys(gen, xb)
     IN /\ keyGenerator' = gen
        /\ a_private_key' = a[1] /\ a_public_key' = a[2]
        /\ b_private_key' = b[1] /\ b_public_key' = b[2]
  /\ error' = FALSE
  /\ pc' = "te_loop"
  /\ UNCHANGED <<msg, a_shared_secret, b_shared_secret, e, answer,
                 b_public_key_serialized, onionVars, th>>

\* lines 135-140: Alice encrypts a fresh message
TE_Encrypt(m) ==
  /\ pc = "te_loop"
  /\ LET s == computeSharedSecret(a_private_key, b_public_key)
         c == IF IsExc(s) THEN s ELSE encryptMessage(s, PyStr(m))
     IN /\ msg' = PyStr(m)
        /\ a_shared_secret' = s
        /\ e' = c
        /\ pc' = IF IsExc(c) THEN "raised" ELSE "te_encrypted"
  /\ UNCHANGED <<keyVars, b_shared_secret, answer, error,
                 b_public_key_serialized, onionVars, th>>

\* lines 143-144: Bob decrypts
TE_Decrypt ==
  /\ pc = "te_encrypted"
  /\ LET s == computeSharedSecret(b_private_key, a_public_key)
         r == IF IsExc(s) THEN s ELSE decryptMessage(s, e)
     IN /\ b_shared_secret' = s
        /\ answer' = r
        /\ pc' = IF IsExc(r) THEN "raised" ELSE "te_decrypted"
  /\ UNCHANGED <<keyVars, msg, a_shared_secret, e, error,
                 b_public_key_serialized, onionVars, th>>

\* lines 146-151: the comparison of the iteration.  msg, e and answer are
\* dead from here on (the next iteration assigns them before it reads them)
TE_Check ==
  /\ pc = "te_decrypted"
  /\ error' = (error \/ a_shared_secret # b_shared_secret \/ answer # msg)
  /\ msg' = PyNone /\ e' = PyNone /\ answer' = PyNone
  /\ pc' = "te_loop"
  /\ UNCHANGED <<keyVars, a_shared_secret, b_shared_secret,
                 b_public_key_serialized, onionVars, th>>

\* lines 153-154: the loop is exhausted
TE_Finish ==
  /\ pc = "te_loop"
  /\ pc' = "te_done"
  /\ UNCHANGED <<keyVars, testVars, onionVars, th>>

InitTestEncryption == InitCommon /\ pc = "te_start"

NextTestEncryption ==
  \/ \E p \in Primes, xa \in PrivateExponents, xb \in PrivateExponents : TE_Setup(p, xa, xb)
  \/ \E m \in TestMessages : TE_Encrypt(m)
  \/ TE_Decrypt
  \/ TE_Check
  \/ TE_Finish

SpecTestEncryption == InitTestEncryption /\ [][NextTestEncryption]_vars

----------------------------------------------------------------------------
(* testKeySerialization *)

\* lines 157-158
TKS_Setup(p) ==
  /\ pc = "tks_start"
  /\ keyGenerator' = createKeyGenerator(p)
  /\ error' = FALSE
  /\ pc' = "tks_loop"
  /\ UNCHANGED <<a_private_key, a_public_key, b_private_key, b_public_key,
                 msg, a_shared_secret, b_shared_secret, e, answer,
                 b_public_key_serialized, onionVars, th>>

\* lines 161-169: fresh key pairs and message, Alice encrypts
TKS_Encrypt(m, xa, xb) ==
  /\ pc = "tks_loop"
  /\ LET a == generateKeys(keyGenerator, xa)
         b == generateKeys(keyGenerator, xb)
         s == computeSharedSecret(a[1], b[2])
         c == IF IsExc(s) THEN s ELSE encryptMessage(s, PyStr(m))
     IN /\ a_private_key' = a[1] /\ a_public_key' = a[2]
        /\ b_private_key' = b[1] /\ b_public_key' = b[2]
        /\ msg' = PyStr(m)
        /\ a_shared_secret' = s
        /\ e' = c
        /\ pc' = IF IsExc(c) THEN "raised" ELSE "tks_encrypted"
  /\ UNCHANGED <<keyGenerator, b_shared_secret, answer, error,
                 b_public_key_serialized, onionVars, th>>

\* lines 172-173: the public key through its serialization
TKS_Serialize ==
  /\ pc = "tks_encrypted"
  /\ LET t == serializePublicKey(b_public_key)
         k == IF IsExc(t) THEN RaiseKey(t.type) ELSE deserializePublicKey(t)
     IN /\ b_public_key_serialized' = t
        /\ b_public_key' = k
        /\ pc' = IF k.type # "DHPublicKey" THEN "raised" ELSE "tks_deserialized"
  /\ UNCHANGED <<keyGenerator, a_private_key, a_public_key, b_private_key,
                 msg, a_shared_secret, b_shared_secret, e, answer, error,
                 onionVars, th>>

\* lines 176-177: decrypt with the key after serialization
TKS_Decrypt ==
  /\ pc = "tks_deserialized"
  /\ LET s == computeSharedSecret(a_private_key, b_public_key)
         r == IF IsExc(s) THEN s ELSE decryptMessage(s, e)
     IN /\ a_shared_secret' = s
        /\ answer' = r
        /\ pc' = IF IsExc(r) THEN "raised" ELSE "tks_decrypted"
  /\ UNCHANGED <<keyVars, msg, b_shared_secret, e, error,
                 b_public_key_serialized, onionVars, th>>

\* lines 179-181.  The locals of the iteration are dead from here on (the
\* next iteration assigns every one of them before it reads it)
TKS_Check ==
  /\ pc = "tks_decrypted"
  /\ error' = (error \/ msg # answer)
  /\ a_private_key' = NoPrivateKey /\ a_public_key' = NoPublicKey
  /\ b_private_key' = NoPrivateKey /\ b_public_key' = NoPublicKey
  /\ msg' = PyNone /\ e' = PyNone /\ answer' = PyNone
  /\ a_shared_secret' = PyNone
  /\ b_public_key_serialized' = PyNone
  /\ pc' = "tks_loop"
  /\ UNCHANGED <<keyGenerator, b_shared_secret, onionVars, th>>

\* lines 183-184
TKS_Finish ==
  /\ pc = "tks_loop"
  /\ pc' = "tks_done"
  /\ UNCHANGED <<keyVars, testVars, onionVars, th>>

InitTestKeySerialization == InitCommon /\ pc = "tks_start"

NextTestKeySerialization ==
  \/ \E p \in Primes : TKS_Setup(p)
  \/ \E m \in TestMessages, xa \in PrivateExponents, xb \in PrivateExponents :
       TKS_Encrypt(m, xa, xb)
  \/ TKS_Serialize
  \/ TKS_Decrypt
  \/ TKS_Check
  \/ TKS_Finish

SpecTestKeySerialization == InitTestKeySerialization /\ [][NextTestKeySerialization]_vars

----------------------------------------------------------------------------
(* One message through the onion codec: client A wraps a layer for server  *)
(* B, the transport delivers a text, B peels it.                           *)

\* createKeyGenerator(): a party draws domain parameters
ON_CreateKeyGenerator(p) ==
  /\ pc = "on_start"
  /\ b_private_key = NoPrivateKey
  /\ keyGenerator' = createKeyGenerator(p)
  /\ UNCHANGED <<pc, a_private_key, a_public_key, b_private_key, b_public_key,
                 testVars, onionVars, th>>

\* generateKeys(keyGenerator) by the client
ON_GenerateKeysA(x) ==
  /\ pc = "on_start"
  /\ keyGenerator # NoGenerator
  /\ a_private_key = NoPrivateKey
  /\ LET a == generateKeys(keyGenerator, x)
     IN a_private_key' = a[1] /\ a_public_key' = a[2]
  /\ UNCHANGED <<pc, keyGenerator, b_private_key, b_public_key,
                 testVars, onionVars, th>>

\* generateKeys(keyGenerator) by the server
ON_GenerateKeysB(x) ==
  /\ pc = "on_start"
  /\ keyGenerator # NoGenerator
  /\ a_private_key # NoPrivateKey
  /\ b_private_key = NoPrivateKey
  /\ LET b == generateKeys(keyGenerator, x)
     IN b_private_key' = b[1] /\ b_public_key' = b[2]
  /\ UNCHANGED <<pc, keyGenerator, a_private_key, a_public_key,
                 testVars, onionVars, th>>

\* both parties hold their long-lived key pair
ON_Ready ==
  /\ pc = "on_start"
  /\ a_private_key # NoPrivateKey /\ b_private_key # NoPrivateKey
  /\ pc' = "on_ready"
  /\ UNCHANGED <<keyVars, testVars, onionVars, th>>

\* the client calls encryptOnionLayer and composes the wire layer
ON_Encrypt(payload) ==
  /\ pc = "on_ready"
  /\ LET t == encryptOnionLayer(a_private_key, b_public_key, PyStr(payload))
     IN /\ msg' = PyStr(payload)
        /\ encLayer' = t
        /\ layer' = IF IsExc(t) THEN PyNone ELSE WireLayer(a_public_key, t)
        /\ pc' = IF IsExc(t) THEN "on_encrypt_raised" ELSE "on_sent"
  /\ UNCHANGED <<keyVars, a_shared_secret, b_shared_secret, e, answer, error,
                 b_public_key_serialized, serverType, decoded, th>>

\* texts a peer or a corrupting transport may deliver instead
TransportLayers ==
  LET pem == serializePublicKey(a_public_key).v
      other == serializePublicKey(PublicKey(47, Generator, 4)).v
      block == Repeat(97, BlockSize)
  IN { PyStr(Repeat(97, 3)),
       PyStr(<<97, Hash, 97>>),
       PyStr(pem \o <<Hash>>),
       PyStr(pem \o <<Hash, 97, 97, 97>>),
       PyStr(pem \o <<Hash>> \o block),
       PyStr(other \o <<Hash>> \o block) }

ON_Transport(l) ==
  /\ pc = "on_ready"
  /\ msg' = PyNone
  /\ encLayer' = PyNone
  /\ layer' = l
  /\ pc' = "on_delivered"
  /\ UNCHANGED <<keyVars, a_shared_secret, b_shared_secret, e, answer, error,
                 b_public_key_serialized, serverType, decoded, th>>

\* the server calls decryptOnionLayer on the layer it received
ON_Decrypt(role) ==
  /\ pc \in {"on_sent", "on_delivered"}
  /\ serverType' = role
  /\ decoded' = decryptOnionLayer(b_private_key, layer, role)
  /\ pc' = IF pc = "on_sent" THEN "on_decoded" ELSE "on_decoded_delivered"
  /\ UNCHANGED <<keyVars, testVars, layer, encLayer, th>>

\* the call is over; the parties go on to the next message
ON_NextMessage ==
  /\ pc \in {"on_encrypt_raised", "on_decoded", "on_decoded_delivered"}
  /\ msg' = PyNone
  /\ serverType' = 0 - 1
  /\ layer' = PyNone /\ encLayer' = PyNone
  /\ decoded' = ReturnedNone
  /\ pc' = "on_ready"
  /\ UNCHANGED <<keyVars, a_shared_secret, b_shared_secret, e, answer, error,
                 b_public_key_serialized, th>>

InitOnion == InitCommon /\ pc = "on_start"

NextOnion ==
  \/ \E p \in Primes : ON_CreateKeyGenerator(p)
  \/ \E x \in PrivateExponents : ON_GenerateKeysA(x)
  \/ \E x \in PrivateExponents : ON_GenerateKeysB(x)
  \/ ON_Ready
  \/ \E payload \in Payloads : ON_Encrypt(payload)
  \/ \E l \in TransportLayers : ON_Transport(l)
  \/ \E role \in Roles : ON_Decrypt(role)
  \/ ON_NextMessage

SpecOnion == InitOnion /\ [][NextOnion]_vars

----------------------------------------------------------------------------
(* Concurrent callers: each thread runs encryptMessage and then            *)
(* decryptMessage statement by statement, on its own locals.               *)

\* messages of the concurrent callers: "a", "1#a"
ThreadMessages == {<<97>>, <<49, Hash, 97>>}

\* secrets of the sessions a relay serves at once
ThreadSecrets ==
  {computeSharedSecret(b_private_key, a_public_key),
   computeSharedSecret(b_private_key, b_public_key)}

\* a caller enters encryptMessage(shared_secret, msg)
T_Call(t, s, m) ==
  /\ th[t].pc = "idle"
  /\ th' = [th EXCEPT ![t] = [IdleThread EXCEPT !.pc = "enc_pad", !.secret = s,
                                                !.msg = PyStr(m)]]
  /\ UNCHANGED <<pc, keyVars, testVars, onionVars>>

\* lines 54-55
T_Pad(t) ==
  /\ th[t].pc = "enc_pad"
  /\ th' = [th EXCEPT ![t].padded = Pkcs7Pad(Encode(th[t].msg).v),
                      ![t].pc = "enc_cipher"]
  /\ UNCHANGED <<pc, keyVars, testVars, onionVars>>

\* keeps the cipher in one object shared by all callers
T_EncCipher_Shared(t) ==
  /\ th[t].pc = "enc_cipher"
  /\ th' = [u \in Threads |->
             [th[u] EXCEPT !.cipher = createCipher(th[t].secret),
                           !.pc = IF u = t THEN "enc_run" ELSE th[u].pc]]
  /\ UNCHANGED <<pc, keyVars, testVars, onionVars>>

\* line 57
T_EncCipher(t) ==
  /\ th[t].pc = "enc_cipher"
  /\ th' = [th EXCEPT ![t].cipher = createCipher(th[t].secret),
                      ![t].pc = "enc_run"]
  /\ UNCHANGED <<pc, keyVars, testVars, onionVars>>

\* lines 58-60
T_Encryptor(t) ==
  /\ th[t].pc = "enc_run"
  /\ th' = [th EXCEPT ![t].e = PyBytes(CbcEncrypt(th[t].cipher.key, th[t].cipher.iv,
                                                  th[t].padded)),
                      ![t].pc = "dec_cipher"]
  /\ UNCHANGED <<pc, keyVars, testVars, onionVars>>

\* line 66
T_DecCipher(t) ==
  /\ th[t].pc = "dec_cipher"
  /\ th' = [th EXCEPT ![t].cipher = createCipher(th[t].secret),
                      ![t].pc = "dec_run"]
  /\ UNCHANGED <<pc, keyVars, testVars, onionVars>>

\* lines 67-68
T_Decryptor(t) ==
  /\ th[t].pc = "dec_run"
  /\ th' = [th EXCEPT ![t].dt = CbcDecrypt(th[t].cipher.key, th[t].cipher.iv, th[t].e.v),
                      ![t].pc = "dec_unpad"]
  /\ UNCHANGED <<pc, keyVars, testVars, onionVars>>

\* lines 70-73
T_Unpad(t) ==
  /\ th[t].pc = "dec_unpad"
  /\ th' = [th EXCEPT ![t].answer = IF Pkcs7Ok(th[t].dt)
                                    THEN Decode(PyBytes(Pkcs7Unpad(th[t].dt)))
                                    ELSE Raise("ValueError"),
                      ![t].pc = "returned"]
  /\ UNCHANGED <<pc, keyVars, testVars, onionVars>>

\* the caller takes the result; the locals are gone
T_Return(t) ==
  /\ th[t].pc = "returned"
  /\ th' = [th EXCEPT ![t] = IdleThread]
  /\ UNCHANGED <<pc, keyVars, testVars, onionVars>>

InitConcurrent ==
  /\ pc = "serving"
  /\ keyGenerator = createKeyGenerator(11)
  /\ \E xa \in PrivateExponents :
       /\ a_private_key = generateKeys(keyGenerator, xa)[1]
       /\ a_public_key = generateKeys(keyGenerator, xa)[2]
  /\ b_private_key = generateKeys(keyGenerator, 2)[1]
  /\ b_public_key = generateKeys(keyGenerator, 2)[2]
  /\ msg = PyNone
  /\ a_shared_secret = PyNone /\ b_shared_secret = PyNone
  /\ e = PyNone /\ answer = PyNone
  /\ error = FALSE
  /\ b_public_key_serialized = PyNone
  /\ serverType = 0 - 1
  /\ layer = PyNone /\ encLayer = PyNone
  /\ decoded = ReturnedNone
  /\ th = [t \in Threads |-> IdleThread]

NextConcurrent ==
  \E t \in Threads :
    \/ \E s \in ThreadSecrets, m \in ThreadMessages : T_Call(t, s, m)
    \/ T_Pad(t)
    \/ T_EncCipher(t)
    \/ T_Encryptor(t)
    \/ T_DecCipher(t)
    \/ T_Decryptor(t)
    \/ T_Unpad(t)
    \/ T_Return(t)

SpecConcurrent == InitConcurrent /\ [][NextConcurrent]_vars

----------------------------------------------------------------------------
(* Properties *)

\* the public key that belongs to a private key
PublicOf(privateKey) ==
  PublicKey(privateKey.p, privateKey.g, ModExp(privateKey.g, privateKey.x, privateKey.p))

\* a plaintext has the shape the role expects
WellFormedFor(role, m) ==
  IF role = 0 THEN TRUE
  ELSE LET f == Split(m, Hash, 2)
       IN /\ Len(f) = 3
          /\ IntOk(f[1])
          /\ (role = 2 => IntOk(f[2]))

\* the decoded fields are those of plaintext m for the role
FieldsMatch(role, d, m) ==
  IF role = 0 THEN d.ints = <<>> /\ d.payload = m
  ELSE IF role = 1
    THEN LET f == Split(m, Hash, 1)
         IN d.ints = <<IntValue(f[1])>> /\ d.payload = f[2]
    ELSE LET f == Split(m, Hash, 2)
         IN d.ints = <<IntValue(f[1]), IntValue(f[2])>> /\ d.payload = f[3]

\* C1: a layer built by A for B from a payload that is well formed for the
\* role decodes at B, for each of the three roles, to A's public key and
\* the fields of the original payload.
C1_OnionRoundTrip ==
  (pc = "on_decoded" /\ serverType \in {0, 1, 2} /\ WellFormedFor(serverType, msg.v))
    => /\ decoded.type = "tuple"
       /\ decoded.ppk = a_public_key
       /\ FieldsMatch(serverType, decoded, msg.v)

\* C2: a message encrypted under computeSharedSecret(priv_A, pub_B) and
\* decrypted under computeSharedSecret(priv_B, pub_A) comes back unchanged,
\* and neither call raises.
C2_RoundTripEncryption ==
  /\ pc # "raised"
  /\ (pc = "te_decrypted" => answer = msg)

C2_Witness ==
  /\ pc = "te_decrypted"
  /\ msg = PyStr(HelloWorld)
  /\ answer = msg

\* C3: the secret A derives from B's public key is the secret B derives
\* from A's public key, a 32-byte value, and a later call with the same
\* keys returns the same secret again.
C3_SharedSecretSymmetry ==
  /\ [](b_shared_secret # PyNone =>
          /\ a_shared_secret = b_shared_secret
          /\ a_shared_secret.type = "bytes"
          /\ Len(a_shared_secret.v) = KeyLength)
  /\ [][(a_shared_secret.type = "bytes" /\ a_shared_secret'.type = "bytes")
          => a_shared_secret' = a_shared_secret]_vars

C3_Witness ==
  /\ pc = "te_decrypted"
  /\ a_private_key.x # b_private_key.x
  /\ a_shared_secret = b_shared_secret

\* C4: the secret derived with a public key that went through
\* serializePublicKey and deserializePublicKey is the secret derived with
\* the key itself, and the ciphertext made with the original key decrypts
\* to the original message.
C4_KeySerializationRoundTrip ==
  /\ pc # "raised"
  /\ (pc = "tks_decrypted" =>
        /\ a_shared_secret = computeSharedSecret(a_private_key, PublicOf(b_private_key))
        /\ answer = msg)

C4_Witness ==
  /\ pc = "tks_decrypted"
  /\ b_public_key_serialized.type = "str"
  /\ b_public_key = PublicOf(b_private_key)
  /\ answer = msg

\* C5: with a role outside {0, 1, 2}, decryptOnionLayer on a well-formed
\* layer raises an error of the argument's value instead of returning.
C5_InvalidRoleRaises ==
  (pc = "on_decoded" /\ serverType \notin {0, 1, 2}) => decoded.type = "ValueError"

\* C6: for roles 1 and 2, a decrypted plaintext without the three fields, or
\* with a non-integer header field, makes decryptOnionLayer raise the format
\* error (ValueError of the unpacking or of int()).
C6_MalformedPayloadRaises ==
  (pc = "on_decoded" /\ serverType \in {1, 2} /\ ~WellFormedFor(serverType, msg.v))
    => decoded.type = "ValueError"

\* C7: decryptOnionLayer either returns the complete tuple of the role
\* (the key, as many integers as the role has, the payload) or raises, and
\* a raised call hands back no field at all.
C7_AllOrNothing ==
  pc \in {"on_decoded", "on_decoded_delivered"} =>
    \/ /\ IsExc(decoded)
       /\ decoded.ppk = NoPublicKey /\ decoded.ints = <<>> /\ decoded.payload = <<>>
    \/ /\ decoded.type = "tuple"
       /\ serverType \in {0, 1, 2}
       /\ decoded.ppk.type = "DHPublicKey"
       /\ Len(decoded.ints) = serverType

C7_Witness ==
  /\ pc = "on_decoded_delivered"
  /\ Len(layer.v) > Len(PemHeader) + BlockSize
  /\ deserializePublicKey(PyStr(Split(layer.v, Hash, 1)[1])) = a_public_key
  /\ a_public_key.p = b_private_key.p
  /\ decoded.type = "ValueError"
  /\ decoded.ppk = NoPublicKey

\* C8: for roles 1 and 2 and a plaintext with an integer header, the decoded
\* integers are the header fields and the payload is the whole text after
\* the first (role 1) or second (role 2) "#", further "#" included.
C8_RemainderIntact ==
  (pc = "on_decoded" /\ serverType \in {1, 2} /\ WellFormedFor(serverType, msg.v))
    => decoded.type = "tuple" /\ FieldsMatch(serverType, decoded, msg.v)

C10_PaddingLength ==
  /\ (pc \in {"te_encrypted", "te_decrypted"} =>
        /\ e.type = "bytes"
        /\ Len(e.v) = BlockSize * ((Len(Encode(msg).v) \div BlockSize) + 1))
  /\ (pc = "te_decrypted" /\ Len(msg.v) \in {0, BlockSize} => answer = msg)

C10_Witness ==
  /\ pc = "te_decrypted"
  /\ Len(msg.v) = BlockSize
  /\ Len(e.v) = 2 * BlockSize
  /\ answer = msg

====
